---------------------------- MODULE Spec2Model ----------------------------
(***************************************************************************)
(* A model of the Iodine validation library (src/src/iodine.js): the rule  *)
(* parser (_prepare), the synchronous and asynchronous evaluation loops    *)
(* (is, asyncIs), the schema loop (isValidSchema), runtime extension       *)
(* (addRule), the configuration setters and the message renderer           *)
(* (getErrorMessage).                                                      *)
(*                                                                         *)
(* JavaScript strings are sequences of one-character strings, so that      *)
(* split(':'), join(':') and the upper-casing of the first character are   *)
(* computed and not assumed.  JavaScript values are tagged records.        *)
(***************************************************************************)
EXTENDS Integers, Sequences, FiniteSets, TLC

VARIABLES
  methods,        \* "is..." methods: of Iodine.prototype, and own ones per instance
  instances,      \* the instances constructed so far
  locale,         \* this.locale of each instance
  messagesRef,    \* this.messages of each instance: a reference into heap
  defaultFieldName, \* this.defaultFieldName of each instance
  heap,           \* the message objects: reference -> (key -> template)
  lastReg,        \* history: the arguments of the latest addRule call per property
  lastIs,         \* history: the latest is() call since the latest addRule: its
                  \* predicate invocations and its outcome
  calls,          \* the asyncIs calls: in flight or awaited
  lastSchema,     \* history: the latest isValidSchema call since the latest addRule
  lastMsg         \* history: the latest getErrorMessage call since the latest setter call

vars == <<methods, instances, locale, messagesRef, defaultFieldName, heap,
          lastReg, lastIs, calls, lastSchema, lastMsg>>

(***************************************************************************)
(* Bounds of the model.                                                    *)
(***************************************************************************)
MaxRules == 2
MaxCalls == 2
MaxKeys == 2
MaxInstances == 2
MaxObjects == 3

(***************************************************************************)
(* JavaScript values.                                                      *)
(***************************************************************************)
Undef == [t |-> "undefined"]
Null == [t |-> "null"]
Str(s) == [t |-> "string", s |-> s]
Bool(b) == [t |-> "boolean", b |-> b]
Num(n) == [t |-> "number", n |-> n]
PromiseOf(v) == [t |-> "promise", v |-> v]

\* ToBoolean: what `!x`, `x || y` and `if (x)` see.
Truthy(v) ==
  CASE v.t = "undefined" -> FALSE
    [] v.t = "null" -> FALSE
    [] v.t = "string" -> v.s # <<>>
    [] v.t = "boolean" -> v.b
    [] v.t = "number" -> v.n # 0
    [] OTHER -> TRUE

(***************************************************************************)
(* Strings.                                                                *)
(***************************************************************************)
Colon == ":"

HasChar(s, c) == \E i \in 1..Len(s) : s[i] = c

FirstIndex(s, c) == CHOOSE i \in 1..Len(s) : s[i] = c /\ \A j \in 1..(i - 1) : s[j] # c

\* String.prototype.split(sep) for a one-character separator.
RECURSIVE Split(_, _)
Split(s, sep) ==
  IF ~HasChar(s, sep) THEN <<s>>
  ELSE LET k == FirstIndex(s, sep)
       IN <<SubSeq(s, 1, k - 1)>> \o Split(SubSeq(s, k + 1, Len(s)), sep)

\* Array.prototype.join(sep) of an array of strings.
RECURSIVE Join(_, _)
Join(parts, sep) ==
  IF parts = <<>> THEN <<>>
  ELSE IF Len(parts) = 1 THEN parts[1]
  ELSE parts[1] \o <<sep>> \o Join(Tail(parts), sep)

LowerCase == <<"a", "b", "c", "d", "e", "f", "g", "h", "i", "j", "k", "l", "m",
               "n", "o", "p", "q", "r", "s", "t", "u", "v", "w", "x", "y", "z">>
UpperCase == <<"A", "B", "C", "D", "E", "F", "G", "H", "I", "J", "K", "L", "M",
               "N", "O", "P", "Q", "R", "S", "T", "U", "V", "W", "X", "Y", "Z">>

\* String.prototype.toUpperCase() of one character.
ToUpperCase(c) ==
  IF \E i \in 1..26 : LowerCase[i] = c
  THEN UpperCase[CHOOSE i \in 1..26 : LowerCase[i] = c]
  ELSE c

TitleCase(value) == <<ToUpperCase(value[1])>> \o Tail(value)

\* The property name `is${this._titleCase(name)}`.
MethodName(name) == <<"i", "s">> \o TitleCase(name)


(***************************************************************************)
(* The strings the model draws its inputs from.                            *)
(***************************************************************************)
N_optional == <<"o", "p", "t", "i", "o", "n", "a", "l">>
N_required == <<"r", "e", "q", "u", "i", "r", "e", "d">>
N_x == <<"x">>

T_optional == N_optional
T_required == N_required
T_x == N_x
T_xab == N_x \o <<":", "a", ":", "b">>

S_empty == <<>>
S_a == <<"a">>
S_ab == <<"a", ":", "b">>

\* The rule tokens, the values and the rule lists that is() and asyncIs() are given.
Tokens == {T_optional, T_required, T_x, T_xab}
Values == {Null, Undef, Str(S_empty), Str(S_a)}

SeqsUpTo(S, n) == UNION {[1..k -> S] : k \in 0..n}
RuleLists == SeqsUpTo(Tokens, MaxRules)

\* The names addRule is called with, and the closures it is handed:
\*   echo       v => v
\*   paramIsAB  (v, p) => p === 'a:b'
\*   asyncIsA   async v => v === 'a'
RuleNames == {N_x, N_optional, N_required}
Closures == {"echo", "paramIsAB", "asyncIsA"}

ClosureApply(id, value, param) ==
  CASE id = "echo" -> value
    [] id = "paramIsAB" -> Bool(param = Str(S_ab))
    [] id = "asyncIsA" -> PromiseOf(Bool(value = Str(S_a)))

(***************************************************************************)
(* Methods and their lookup.  this[`is...`] finds an own property of the   *)
(* instance first and a property of Iodine.prototype second.               *)
(***************************************************************************)
Prototype == 0

Builtin(name) == [kind |-> "builtin", name |-> name]
Closure(id) == [kind |-> "closure", id |-> id]
NoMethod == [kind |-> "undefined"]

P_isOptional == MethodName(N_optional)
P_isRequired == MethodName(N_required)

\* The class body's predicates that the model's tokens reach.
ClassMethods ==
  [p \in {P_isOptional, P_isRequired} |->
     IF p = P_isOptional THEN Builtin("isOptional") ELSE Builtin("isRequired")]

NoOwnMethods == [p \in {} |-> NoMethod]

Lookup(i, prop) ==
  IF prop \in DOMAIN methods[i] THEN methods[i][prop]
  ELSE IF prop \in DOMAIN methods[Prototype] THEN methods[Prototype][prop]
  ELSE NoMethod

\* isOptional(value): [null, undefined, ''].includes(value)
IsOptionalBuiltin(value) == Bool(value \in {Null, Undef, Str(S_empty)})

\* A method that calls no other method of the instance.
CallLeaf(m, value, param) ==
  CASE m.kind = "closure" -> ClosureApply(m.id, value, param)
    [] m.kind = "builtin" /\ m.name = "isOptional" -> IsOptionalBuiltin(value)

\* isRequired(value): !this.isOptional(value)
IsRequiredBuiltin(i, value) ==
  Bool(~Truthy(CallLeaf(Lookup(i, P_isOptional), value, Undef)))

\* method.apply(this, [value, param])
CallMethod(i, m, value, param) ==
  IF m.kind = "builtin" /\ m.name = "isRequired"
  THEN IsRequiredBuiltin(i, value)
  ELSE CallLeaf(m, value, param)

(***************************************************************************)
(* _prepare(value, rules)                                                  *)
(***************************************************************************)
\* this.isOptional(value), as _prepare calls it.
PrepareIsOptional(i, value) == CallLeaf(Lookup(i, P_isOptional), value, Undef)

\* rules[0] === 'optional' && this.isOptional(value)
SkipsAll(i, value, rules) ==
  /\ rules[1] = T_optional
  /\ Truthy(PrepareIsOptional(i, value))

\* rule => [rule, this._titleCase(rule.split(':').shift()), rule.split(':').slice(1)]
ParseRule(rule) ==
  [token |-> rule,
   name |-> TitleCase(Head(Split(rule, Colon))),
   params |-> Tail(Split(rule, Colon))]

\* ParseRule of every token of the model, computed once.
ParsedTokens == [t \in Tokens |-> ParseRule(t)]

\* rules.filter(rule => rule !== 'optional')
RECURSIVE DropOptional(_)
DropOptional(rules) ==
  IF rules = <<>> THEN <<>>
  ELSE IF Head(rules) # T_optional
       THEN <<Head(rules)>> \o DropOptional(Tail(rules))
       ELSE DropOptional(Tail(rules))

Prepare(i, value, rules) ==
  IF Len(rules) = 0 THEN <<>>
  ELSE IF SkipsAll(i, value, rules) THEN <<>>
  ELSE LET kept == DropOptional(rules)
       IN [k \in 1..Len(kept) |-> ParsedTokens[kept[k]]]

\* The calls of this.isOptional that _prepare makes: one when the first token
\* is 'optional', none otherwise.
PrepareCalls(i, value, rules) ==
  IF Len(rules) > 0 /\ rules[1] = T_optional
  THEN <<[method |-> Lookup(i, P_isOptional), value |-> value, param |-> Undef,
          ret |-> PrepareIsOptional(i, value)]>>
  ELSE <<>>

(***************************************************************************)
(* is(value, rules)                                                        *)
(***************************************************************************)
Return(v) == [kind |-> "return", value |-> v]
Throw == [kind |-> "throw", error |-> "TypeError"]

\* this[`is${rule[1]}`]
RuleMethod(i, rule) == Lookup(i, <<"i", "s">> \o rule.name)

\* rule[2].join(':')
RuleParam(rule) == Str(Join(rule.params, Colon))

\* Faulty variant of Fails, for sensitivity of the properties: `result === false`.
FailsOnlyOnFalse(ret) == ret = Bool(FALSE)

\* The test of `if (!result)`.
Fails(ret) == ~Truthy(ret)

Invocation(rule, m, value, param, ret) ==
  [token |-> rule.token, method |-> m, value |-> value, param |-> param, ret |-> ret,
   awaited |-> FALSE]

\* Faulty variant of Apply, for sensitivity of the properties: `m?.apply(...)`, undefined for a missing method.
ApplyIfPresent(i, m, value, param) ==
  IF m = NoMethod THEN Return(Undef) ELSE Return(CallMethod(i, m, value, param))

\* m.apply(this, [value, param]): a TypeError when m is undefined.
Apply(i, m, value, param) ==
  IF m = NoMethod THEN Throw ELSE Return(CallMethod(i, m, value, param))

\* The for loop of is(), from `index` on; log is the predicate invocations so far.
RECURSIVE IsLoop(_, _, _, _, _)
IsLoop(i, value, prepared, index, log) ==
  IF index > Len(prepared) THEN [outcome |-> Return(Bool(TRUE)), log |-> log]
  ELSE LET rule == prepared[index]
           m == RuleMethod(i, rule)
           param == RuleParam(rule)
           got == Apply(i, m, value, param)
       IN IF got.kind = "throw" THEN [outcome |-> Throw, log |-> log]
          ELSE LET log2 == Append(log, Invocation(rule, m, value, param, got.value))
               IN IF Fails(got.value)
                  THEN [outcome |-> Return(Str(rule.token)), log |-> log2]
                  ELSE IsLoop(i, value, prepared, index + 1, log2)

IsRun(i, value, rules) == IsLoop(i, value, Prepare(i, value, rules), 1, <<>>)

\* isValid(value, rules): this.is(value, rules) === true
IsValidOutcome(i, value, rules) ==
  LET r == IsRun(i, value, rules).outcome
  IN IF r.kind = "throw" THEN Throw ELSE Return(Bool(r.value = Bool(TRUE)))

(***************************************************************************)
(* Messages.  A message object is a function from keys to templates; the   *)
(* instances hold references to message objects, as JavaScript does.  A    *)
(* template is a sequence of pieces of text in which '[FIELD]' and         *)
(* '[PARAM]' are pieces of their own.                                      *)
(***************************************************************************)
N_min == <<"m", "i", "n">>
N_after == <<"a", "f", "t", "e", "r">>
N_afterOrEqual == N_after \o <<"O", "r", "E", "q", "u", "a", "l">>
N_before == <<"b", "e", "f", "o", "r", "e">>
N_beforeOrEqual == N_before \o <<"O", "r", "E", "q", "u", "a", "l">>

FieldMark == "[FIELD]"
ParamMark == "[PARAM]"

S_Value == <<"Value">>

\* The entries of _defaultMessages() for the keys of the model.
DefaultMessages ==
  [k \in {N_after, N_min, N_required} |->
     IF k = N_after THEN <<"The date must be after: '", ParamMark, "'">>
     ELSE IF k = N_min THEN <<FieldMark, " must be greater than or equal to ", ParamMark>>
     ELSE <<FieldMark, " must be present">>]

(***************************************************************************)
(* State after `window.Iodine = new Iodine()`.                             *)
(***************************************************************************)
NoCall == [kind |-> "none"]

Init ==
  /\ methods = [o \in {Prototype, 1} |-> IF o = Prototype THEN ClassMethods ELSE NoOwnMethods]
  /\ instances = {1}
  /\ locale = [i \in {1} |-> Undef]
  /\ messagesRef = [i \in {1} |-> 1]
  /\ defaultFieldName = [i \in {1} |-> S_Value]
  /\ heap = <<DefaultMessages>>
  /\ lastReg = [p \in {} |-> NoMethod]
  /\ lastIs = NoCall
  /\ calls = <<>>
  /\ lastSchema = NoCall
  /\ lastMsg = NoCall

(***************************************************************************)
(* addRule(name, closure): Iodine.prototype[`is${titleCase(name)}`] = closure *)
(***************************************************************************)
\* Faulty variant of AddRuleTarget, for sensitivity of the properties: `this[...] = closure`.
AddRuleTargetThis(i) == i

\* The object addRule assigns the property on: Iodine.prototype.
AddRuleTarget(i) == Prototype

\* Faulty variant of SetMethod, for sensitivity of the properties: an existing property is kept.
SetMethodIfAbsent(table, prop, m) ==
  [p \in DOMAIN table \cup {prop} |-> IF p \in DOMAIN table THEN table[p] ELSE m]

\* object[prop] = m
SetMethod(table, prop, m) ==
  [p \in DOMAIN table \cup {prop} |-> IF p = prop THEN m ELSE table[p]]

Disturb(c) == [c EXCEPT !.disturbed = TRUE]

AddRule(i, name, id) ==
  /\ i \in instances
  /\ methods' = [methods EXCEPT ![AddRuleTarget(i)] =
                   SetMethod(methods[AddRuleTarget(i)], MethodName(name), Closure(id))]
  /\ lastReg' = [p \in DOMAIN lastReg \cup {MethodName(name)} |->
                   IF p = MethodName(name) THEN Closure(id) ELSE lastReg[p]]
  /\ lastIs' = NoCall
  /\ lastSchema' = NoCall
  /\ calls' = [k \in DOMAIN calls |-> Disturb(calls[k])]
  /\ UNCHANGED <<instances, locale, messagesRef, defaultFieldName, heap, lastMsg>>

(***************************************************************************)
(* A call of is(value, rules) on instance i, run to its end.               *)
(***************************************************************************)
Is(i, value, rules) ==
  /\ i \in instances
  /\ LET run == IsRun(i, value, rules)
     IN lastIs' = [kind |-> "is", inst |-> i, value |-> value, rules |-> rules,
                   prepare |-> PrepareCalls(i, value, rules),
                   log |-> run.log, outcome |-> run.outcome]
  /\ UNCHANGED <<methods, instances, locale, messagesRef, defaultFieldName, heap,
                 lastReg, calls, lastSchema, lastMsg>>

NextIs ==
  \/ \E i \in instances, name \in RuleNames, id \in Closures : AddRule(i, name, id)
  \/ \E i \in instances, value \in Values, rules \in RuleLists : Is(i, value, rules)

SpecIs == Init /\ [][NextIs]_vars

(***************************************************************************)
(* asyncIs(value, rules).  The call runs without suspension up to its      *)
(* first await; every await suspends it, and the continuation is a later   *)
(* step: at once for a plain value, whenever the promise settles for a     *)
(* promise.  Other calls and addRule may run in between.                   *)
(***************************************************************************)
AsyncValues == {Str(S_empty), Str(S_a)}
AsyncRuleNames == {N_x}

\* Faulty variant of Awaited, for sensitivity of the properties: the await left out.
NotAwaited(ret) == ret

\* What `await ret` evaluates to.
Awaited(ret) == IF ret.t = "promise" THEN ret.v ELSE ret

\* Faulty variant of CallValue, for sensitivity of the properties: the value kept in a place the calls share.
CallValueShared(k) == calls[Len(calls)].value

\* The value the call passes to its predicates.
CallValue(k) == calls[k].value

\* The loop of asyncIs at `index`: past the end, `return true`; at a rule whose
\* method is missing, a TypeError that rejects the promise; otherwise the
\* predicate is invoked and the call suspends on its result.
AsyncInvoke(c, value, index) ==
  IF index > Len(c.prepared)
  THEN [c EXCEPT !.index = index, !.state = "fulfilled", !.outcome = Return(Bool(TRUE))]
  ELSE LET rule == c.prepared[index]
           m == RuleMethod(c.inst, rule)
           param == RuleParam(rule)
           got == Apply(c.inst, m, value, param)
       IN IF got.kind = "throw"
          THEN [c EXCEPT !.index = index, !.state = "rejected", !.outcome = Throw]
          ELSE [c EXCEPT !.index = index, !.state = "awaitPredicate",
                         !.log = Append(@, Invocation(rule, m, value, param, got.value))]

AsyncIs(i, value, rules) ==
  /\ i \in instances
  /\ Len(calls) < MaxCalls
  /\ calls' = Append(calls,
       AsyncInvoke([kind |-> "asyncIs", inst |-> i, value |-> value, rules |-> rules,
                    prepare |-> PrepareCalls(i, value, rules),
                    prepared |-> Prepare(i, value, rules),
                    index |-> 0, log |-> <<>>, state |-> "running",
                    outcome |-> NoCall, disturbed |-> FALSE],
                   value, 1))
  /\ UNCHANGED <<methods, instances, locale, messagesRef, defaultFieldName, heap,
                 lastReg, lastIs, lastSchema, lastMsg>>

\* The continuation of `await <predicate result>`.
ResumePredicate(k) ==
  /\ k \in DOMAIN calls
  /\ calls[k].state = "awaitPredicate"
  /\ LET c == calls[k]
         n == Len(c.log)
         got == Awaited(c.log[n].ret)
         c1 == [c EXCEPT !.log[n].awaited = TRUE]
     IN calls' = [calls EXCEPT ![k] =
                    IF Fails(got) THEN [c1 EXCEPT !.state = "awaitToken"]
                    ELSE AsyncInvoke(c1, CallValue(k), c.index + 1)]
  /\ UNCHANGED <<methods, instances, locale, messagesRef, defaultFieldName, heap,
                 lastReg, lastIs, lastSchema, lastMsg>>

\* The continuation of `return await rules[index][0]`.
ResumeToken(k) ==
  /\ k \in DOMAIN calls
  /\ calls[k].state = "awaitToken"
  /\ calls' = [calls EXCEPT ![k].state = "fulfilled",
                            ![k].outcome = Return(Str(calls[k].prepared[calls[k].index].token))]
  /\ UNCHANGED <<methods, instances, locale, messagesRef, defaultFieldName, heap,
                 lastReg, lastIs, lastSchema, lastMsg>>

NextAsync ==
  \/ \E i \in instances, name \in AsyncRuleNames, id \in Closures : AddRule(i, name, id)
  \/ \E i \in instances, value \in AsyncValues, rules \in RuleLists : AsyncIs(i, value, rules)
  \/ \E k \in 1..MaxCalls : ResumePredicate(k)
  \/ \E k \in 1..MaxCalls : ResumeToken(k)

SpecAsync == Init /\ [][NextAsync]_vars

\* asyncIs run with no other step in between: the loop from `index` on.
RECURSIVE AsyncLoop(_, _, _, _, _)
AsyncLoop(i, value, prepared, index, log) ==
  IF index > Len(prepared) THEN [outcome |-> Return(Bool(TRUE)), log |-> log]
  ELSE LET rule == prepared[index]
           m == RuleMethod(i, rule)
           param == RuleParam(rule)
           got == Apply(i, m, value, param)
       IN IF got.kind = "throw" THEN [outcome |-> Throw, log |-> log]
          ELSE LET log2 == Append(log, [Invocation(rule, m, value, param, got.value)
                                          EXCEPT !.awaited = TRUE])
               IN IF Fails(Awaited(got.value))
                  THEN [outcome |-> Return(Str(rule.token)), log |-> log2]
                  ELSE AsyncLoop(i, value, prepared, index + 1, log2)

AsyncRun(i, value, rules) == AsyncLoop(i, value, Prepare(i, value, rules), 1, <<>>)

(***************************************************************************)
(* is and asyncIs side by side, over the rule lists of a registered and a  *)
(* not yet registered rule.                                                *)
(***************************************************************************)
CatalogRuleLists == SeqsUpTo({T_required, T_x}, MaxRules)
CatalogClosures == {"asyncIsA"}

NextCatalog ==
  \/ \E i \in instances, name \in AsyncRuleNames, id \in CatalogClosures :
       AddRule(i, name, id)
  \/ \E i \in instances, value \in AsyncValues, rules \in CatalogRuleLists : Is(i, value, rules)
  \/ \E i \in instances, value \in AsyncValues, rules \in CatalogRuleLists :
       AsyncIs(i, value, rules)
  \/ \E k \in 1..MaxCalls : ResumePredicate(k)
  \/ \E k \in 1..MaxCalls : ResumeToken(k)

SpecCatalog == Init /\ [][NextCatalog]_vars

(***************************************************************************)
(* The claims.                                                             *)
(***************************************************************************)
\* The tokens of a rule list other than 'optional', in list order.
NonOptional(rules) == SelectSeq(rules, LAMBDA t : t # T_optional)

\* The text of a token before and after its first ':'.
BeforeFirstColon(tok) ==
  IF HasChar(tok, Colon) THEN SubSeq(tok, 1, FirstIndex(tok, Colon) - 1) ELSE tok
AfterFirstColon(tok) ==
  IF HasChar(tok, Colon) THEN SubSeq(tok, FirstIndex(tok, Colon) + 1, Len(tok)) ELSE <<>>

\* What a predicate's result, a plain value or a promise, resolves to.
ResultOf(ret) == IF ret.t = "promise" THEN ret.v ELSE ret

IsEmptyValue(v) == v = Null \/ v = Undef \/ v = Str(<<>>)

\* C1: is(v, R) invokes the predicates of the non-optional tokens in list order,
\* each with v, and stops at the first one that returns a falsy result: every
\* invocation before the last one passed, a falsy last invocation makes the call
\* return exactly that token, and a call that returns, returns true only when
\* every invoked predicate passed and a token only when that token's predicate
\* was the last one invoked and failed.
C1_ShortCircuit ==
  lastIs.kind = "is" =>
    LET log == lastIs.log
        kept == NonOptional(lastIs.rules)
        n == Len(log)
    IN /\ n <= Len(kept)
       /\ \A k \in 1..n : log[k].token = kept[k] /\ log[k].value = lastIs.value
       /\ \A k \in 1..(n - 1) : Truthy(log[k].ret)
       /\ (n > 0 /\ ~Truthy(log[n].ret)) => lastIs.outcome = Return(Str(kept[n]))
       /\ lastIs.outcome.kind = "return" =>
            \/ lastIs.outcome.value = Bool(TRUE) /\ \A k \in 1..n : Truthy(log[k].ret)
            \/ n > 0 /\ ~Truthy(log[n].ret) /\ lastIs.outcome.value = Str(kept[n])

\* C1 witness: a call whose first rule's predicate returned a falsy value that is
\* not false, with a later rule that was never invoked.
C1_Witness ==
  /\ lastIs.kind = "is"
  /\ Len(lastIs.log) = 1
  /\ Len(NonOptional(lastIs.rules)) = 2
  /\ lastIs.log[1].ret = Str(<<>>)
  /\ lastIs.outcome = Return(Str(lastIs.rules[1]))

\* C2 (the claim as stated): a rule list whose first token is 'optional' makes
\* is(v, R) return true for v null, undefined or '', with no predicate of a
\* remaining token invoked.
C2_OptionalSkipsAll ==
  (/\ lastIs.kind = "is"
   /\ Len(lastIs.rules) > 0
   /\ lastIs.rules[1] = T_optional
   /\ IsEmptyValue(lastIs.value))
  => lastIs.outcome = Return(Bool(TRUE)) /\ lastIs.log = <<>>

\* The outcome and the invocations the claim C5 describes for is(v, [tok]) when
\* a closure was registered under tok's derived name.
DispatchesToLatest(tok) ==
  LET c == lastReg[MethodName(BeforeFirstColon(tok))]
      param == Str(AfterFirstColon(tok))
      ret == ClosureApply(c.id, lastIs.value, param)
  IN /\ Len(lastIs.log) = 1
     /\ lastIs.log[1].method = c
     /\ lastIs.log[1].value = lastIs.value
     /\ lastIs.log[1].param = param
     /\ lastIs.outcome = IF Truthy(ret) THEN Return(Bool(TRUE)) ELSE Return(Str(tok))

SingleRegisteredToken ==
  /\ lastIs.kind = "is"
  /\ Len(lastIs.rules) = 1
  /\ MethodName(BeforeFirstColon(lastIs.rules[1])) \in DOMAIN lastReg

\* C5 (the claim as stated): after any addRule calls, is(v, [tok]) dispatches to
\* the closure most recently registered under tok's derived name, called with
\* (v, the text after tok's first ':'), and returns tok when the closure returns
\* a falsy value and true otherwise.
C5_DispatchesToLatest ==
  SingleRegisteredToken => DispatchesToLatest(lastIs.rules[1])

\* C5 (amended): the same for every token other than the bare token 'optional',
\* which _prepare drops from the list, so that its predicate is never dispatched
\* by the evaluation loop.
C5_DispatchesToLatestUnlessOptional ==
  (SingleRegisteredToken /\ lastIs.rules[1] # T_optional)
  => DispatchesToLatest(lastIs.rules[1])

\* C5 witness: a closure registered under the name of the built-in rule
\* 'required' was dispatched to and failed the value.
C5_Witness ==
  /\ SingleRegisteredToken
  /\ lastIs.rules[1] = T_required
  /\ lastIs.outcome = Return(Str(T_required))
  /\ lastIs.log[1].method.kind = "closure"

\* Whether _prepare returned the empty list because of a leading 'optional'.
Skipped(c) ==
  Len(c.rules) > 0 /\ c.rules[1] = T_optional /\ Truthy(c.prepare[1].ret)

\* The tokens the loop of call c goes through.
Evaluated(c) == IF Skipped(c) THEN <<>> ELSE NonOptional(c.rules)

HasEntry(i, tok) == Lookup(i, MethodName(BeforeFirstColon(tok))) # NoMethod

\* The loop of call c has come to a token with no catalog entry: every
\* predicate before it was invoked and passed (for asyncIs, was awaited too).
ReachedMissing(c) ==
  LET n == Len(c.log)
  IN /\ n < Len(Evaluated(c))
     /\ \A k \in 1..n :
          IF c.kind = "asyncIs"
          THEN c.log[k].awaited /\ Truthy(ResultOf(c.log[k].ret))
          ELSE Truthy(c.log[k].ret)
     /\ ~HasEntry(c.inst, Evaluated(c)[n + 1])

\* A call that returned (or whose promise was fulfilled) met only tokens with a
\* catalog entry.
ReturnedOnlyOnEntries(c) ==
  c.outcome.kind = "return" =>
    /\ \A k \in 1..Len(c.log) : c.log[k].method # NoMethod /\ HasEntry(c.inst, Evaluated(c)[k])
    /\ c.outcome.value = Bool(TRUE) => Len(c.log) = Len(Evaluated(c))

\* C6: when is or asyncIs reaches a token whose derived predicate name has no
\* catalog entry, the call throws (asyncIs: its promise is rejected); a call that
\* returns true or a failing token has met no such token.  (An asyncIs call is
\* compared with the catalog only while no addRule has run since it started.)
C6_MissingPredicateThrows ==
  /\ lastIs.kind = "is" =>
       /\ ReachedMissing(lastIs) => lastIs.outcome = Throw
       /\ ReturnedOnlyOnEntries(lastIs)
  /\ \A k \in DOMAIN calls :
       ~calls[k].disturbed =>
         /\ ReachedMissing(calls[k]) =>
              calls[k].state = "rejected" /\ calls[k].outcome = Throw
         /\ ReturnedOnlyOnEntries(calls[k])

\* C6 witness: an is call that threw and an asyncIs call that was rejected, each
\* at a second rule with no catalog entry after a first rule that passed.
C6_Witness ==
  /\ lastIs.kind = "is" /\ lastIs.outcome = Throw /\ Len(lastIs.log) = 1
  /\ \E k \in DOMAIN calls :
       /\ calls[k].state = "rejected" /\ ~calls[k].disturbed
       /\ Len(calls[k].log) = 1 /\ calls[k].log[1].awaited

\* C3: in asyncIs the predicates are invoked in list order and one after
\* another: every invocation but the latest has been awaited and resolved to a
\* truthy value; a call waiting to return its token, or fulfilled with a token,
\* has that token's predicate as its latest invocation, awaited and resolved to
\* a falsy value; a call fulfilled with true has awaited every one of its
\* predicates, and each resolved to a truthy value.
C3_AwaitedInSequence ==
  \A j \in DOMAIN calls :
    LET c == calls[j]
        log == c.log
        kept == NonOptional(c.rules)
        n == Len(log)
        failedLast == n > 0 /\ log[n].awaited /\ ~Truthy(ResultOf(log[n].ret))
    IN /\ n <= Len(kept)
       /\ \A k \in 1..n : log[k].token = kept[k] /\ log[k].value = c.value
       /\ \A k \in 1..(n - 1) : log[k].awaited /\ Truthy(ResultOf(log[k].ret))
       /\ c.state = "awaitPredicate" => n > 0 /\ ~log[n].awaited
       /\ c.state = "awaitToken" => failedLast
       /\ failedLast => c.state \in {"awaitToken", "fulfilled"}
       /\ c.state = "fulfilled" =>
            \/ /\ c.outcome = Return(Bool(TRUE))
               /\ \A k \in 1..n : log[k].awaited /\ Truthy(ResultOf(log[k].ret))
            \/ failedLast /\ c.outcome = Return(Str(kept[n]))

\* C3 witness: a call fulfilled with the token of its first rule, whose predicate
\* returned a promise that resolved to false, its second rule never invoked.
C3_Witness ==
  \E j \in DOMAIN calls :
    /\ calls[j].state = "fulfilled"
    /\ Len(calls[j].log) = 1
    /\ Len(NonOptional(calls[j].rules)) = 2
    /\ calls[j].log[1].ret = PromiseOf(Bool(FALSE))
    /\ calls[j].outcome = Return(Str(calls[j].rules[1]))

\* C10: an asyncIs call that has ended, with no addRule since it started, has the
\* outcome and the predicate invocations (tokens, predicates, arguments, in
\* order) of the same call run alone, whatever other calls ran in between.
C10_CallsDoNotInterfere ==
  \A j \in DOMAIN calls :
    LET c == calls[j]
    IN (c.state \in {"fulfilled", "rejected"} /\ ~c.disturbed) =>
         /\ c.outcome = AsyncRun(c.inst, c.value, c.rules).outcome
         /\ c.log = AsyncRun(c.inst, c.value, c.rules).log

\* C10 witness: the second call started after the first and ended, after two
\* predicate invocations, while the first was still waiting on its second
\* predicate; the two calls have different values and different rule lists.
C10_Witness ==
  /\ Len(calls) = 2
  /\ calls[1].state = "awaitPredicate" /\ Len(calls[1].log) = 2
  /\ calls[2].state = "fulfilled" /\ Len(calls[2].log) = 2
  /\ ~calls[1].disturbed /\ ~calls[2].disturbed
  /\ calls[1].value # calls[2].value
  /\ calls[1].rules # calls[2].rules

(***************************************************************************)
(* The constructor and the configuration setters.                          *)
(***************************************************************************)
Locales == {Str(<<"f", "r">>)}
FieldNames == {<<"Age">>}
MessageKeys == {N_min}
Templates == {<<ParamMark, " or more for ", FieldMark>>}

\* The message objects a caller builds and hands to setErrorMessages.
CallerMessages == {[k \in {N_min} |-> <<FieldMark, " is too small">>]}

\* object[key] = v
SetKey(object, key, v) ==
  [k \in DOMAIN object \cup {key} |-> IF k = key THEN v ELSE object[k]]

\* with(f, i, v): f extended or changed at i.
With(f, i, v) == [j \in DOMAIN f \cup {i} |-> IF j = i THEN v ELSE f[j]]

\* this.messages of instance i.
Messages(i) == heap[messagesRef[i]]

\* new Iodine()
Construct(i) ==
  /\ i \notin instances
  /\ i = Cardinality(instances) + 1
  /\ i <= MaxInstances
  /\ Len(heap) < MaxObjects
  /\ instances' = instances \cup {i}
  /\ locale' = With(locale, i, Undef)
  /\ heap' = Append(heap, DefaultMessages)
  /\ messagesRef' = With(messagesRef, i, Len(heap) + 1)
  /\ defaultFieldName' = With(defaultFieldName, i, S_Value)
  /\ methods' = With(methods, i, NoOwnMethods)
  /\ UNCHANGED <<lastReg, lastIs, calls, lastSchema, lastMsg>>

\* setErrorMessages(messages): this.messages = messages.  The caller's object is
\* one the program already holds (ref <= Len(heap)) or a new one (content).
SetErrorMessages(i, ref, content) ==
  /\ i \in instances
  /\ ref \in 1..(Len(heap) + 1)
  /\ ref <= MaxObjects
  /\ heap' = IF ref <= Len(heap) THEN heap ELSE Append(heap, content)
  /\ messagesRef' = [messagesRef EXCEPT ![i] = ref]
  /\ lastMsg' = NoCall
  /\ UNCHANGED <<methods, instances, locale, defaultFieldName, lastReg, lastIs, calls,
                 lastSchema>>

\* setErrorMessage(key, message): this.messages[key] = message
SetErrorMessage(i, key, message) ==
  /\ i \in instances
  /\ heap' = [heap EXCEPT ![messagesRef[i]] = SetKey(@, key, message)]
  /\ lastMsg' = NoCall
  /\ UNCHANGED <<methods, instances, locale, messagesRef, defaultFieldName, lastReg,
                 lastIs, calls, lastSchema>>

\* setLocale(locale): this.locale = locale
SetLocale(i, loc) ==
  /\ i \in instances
  /\ locale' = [locale EXCEPT ![i] = loc]
  /\ lastMsg' = NoCall
  /\ UNCHANGED <<methods, instances, messagesRef, defaultFieldName, heap, lastReg,
                 lastIs, calls, lastSchema>>

\* setDefaultFieldName(fieldName): this.defaultFieldName = fieldName
SetDefaultFieldName(i, fieldName) ==
  /\ i \in instances
  /\ defaultFieldName' = [defaultFieldName EXCEPT ![i] = fieldName]
  /\ lastMsg' = NoCall
  /\ UNCHANGED <<methods, instances, locale, messagesRef, heap, lastReg, lastIs, calls,
                 lastSchema>>

NextConfig ==
  \/ \E i \in 1..MaxInstances : Construct(i)
  \/ \E i \in instances, ref \in 1..MaxObjects, content \in CallerMessages :
       SetErrorMessages(i, ref, content)
  \/ \E i \in instances, key \in MessageKeys, message \in Templates :
       SetErrorMessage(i, key, message)
  \/ \E i \in instances, loc \in Locales : SetLocale(i, loc)
  \/ \E i \in instances, fieldName \in FieldNames : SetDefaultFieldName(i, fieldName)
  \/ \E i \in instances, name \in AsyncRuleNames, id \in CatalogClosures :
       AddRule(i, name, id)

SpecConfig == Init /\ [][NextConfig]_vars

\* A step is a call of one of the four setters on instance i.
SetterStep(i) ==
  \/ \E ref \in 1..MaxObjects, content \in CallerMessages : SetErrorMessages(i, ref, content)
  \/ \E key \in MessageKeys, message \in Templates : SetErrorMessage(i, key, message)
  \/ \E loc \in Locales : SetLocale(i, loc)
  \/ \E fieldName \in FieldNames : SetDefaultFieldName(i, fieldName)

\* Every instance dispatches to the closure of the latest addRule call for a
\* property, whichever instance the call was made on.
AddRuleReachesAll ==
  \A j \in instances : \A prop \in DOMAIN lastReg : Lookup(j, prop) = lastReg[prop]

\* C9 (the claim as stated): a setter called on one instance leaves the messages,
\* the locale and the defaultFieldName of every other instance unchanged, whereas
\* addRule called on one instance changes the predicate every instance (already
\* constructed or constructed later) dispatches to for that rule name.
C9_SettersLocalAddRuleGlobal ==
  /\ [][\A i \in instances : SetterStep(i) =>
          \A j \in instances \ {i} :
            /\ locale'[j] = locale[j]
            /\ defaultFieldName'[j] = defaultFieldName[j]
            /\ heap'[messagesRef'[j]] = heap[messagesRef[j]]]_vars
  /\ []AddRuleReachesAll

\* C9 (amended): the same, except that setErrorMessage on one instance also
\* changes the messages of every other instance that holds the same messages
\* object (one object handed to setErrorMessages of both, or one instance's
\* messages handed to the other); the messages of the instances holding another
\* object stay unchanged.
C9_SettersLocalUnlessSharedObject ==
  /\ [][\A i \in instances : SetterStep(i) =>
          \A j \in instances \ {i} :
            /\ locale'[j] = locale[j]
            /\ defaultFieldName'[j] = defaultFieldName[j]
            /\ messagesRef'[j] = messagesRef[j]
            /\ messagesRef[j] # messagesRef[i] => heap'[messagesRef'[j]] = heap[messagesRef[j]]]_vars
  /\ []AddRuleReachesAll

\* C9 witness: two instances that differ in locale, defaultFieldName and
\* messages after setter calls, and the second dispatches to the closure of the
\* latest addRule call.
C9_Witness ==
  /\ instances = {1, 2}
  /\ locale[1] # locale[2]
  /\ defaultFieldName[1] # defaultFieldName[2]
  /\ messagesRef[1] # messagesRef[2]
  /\ Messages(1) # Messages(2)
  /\ MethodName(N_x) \in DOMAIN lastReg
  /\ Lookup(2, MethodName(N_x)) = lastReg[MethodName(N_x)]

(***************************************************************************)
(* getErrorMessage(rule, args)                                             *)
(***************************************************************************)
Object(param, field) == [t |-> "object", param |-> param, field |-> field]
NaN == [t |-> "NaN"]

DigitChars == <<"0", "1", "2", "3", "4", "5", "6", "7", "8", "9">>
IsDigit(c) == \E d \in 1..10 : DigitChars[d] = c
DigitValue(c) == (CHOOSE d \in 1..10 : DigitChars[d] = c) - 1

\* Number.prototype.toString() of a natural number.
RECURSIVE Digits(_)
Digits(n) == IF n < 10 THEN <<DigitChars[n + 1]>> ELSE Digits(n \div 10) \o <<DigitChars[(n % 10) + 1]>>

\* The string a value is converted to when it is the replacement of replace().
ToStringJS(v) ==
  CASE v.t = "string" -> v.s
    [] v.t = "number" -> Digits(v.n)
    [] v.t = "boolean" -> IF v.b THEN <<"true">> ELSE <<"false">>
    [] v.t = "null" -> <<"null">>
    [] v.t = "undefined" -> <<"undefined">>

\* The number that the leading decimal digits of s stand for, acc the digits so far.
RECURSIVE LeadingNumber(_, _)
LeadingNumber(s, acc) ==
  IF s = <<>> \/ ~IsDigit(Head(s)) THEN acc
  ELSE LeadingNumber(Tail(s), 10 * acc + DigitValue(Head(s)))

\* parseInt(v): of the string v is converted to.
ParseInt(v) ==
  LET s == ToStringJS(v)
  IN IF s = <<>> \/ ~IsDigit(Head(s)) THEN NaN ELSE Num(LeadingNumber(s, 0))

\* new Date(time).toLocaleTimeString(locale, {...}): 'Invalid Date' for NaN, and
\* otherwise a text that the time and the locale determine.
DateText(time, loc) ==
  IF time = NaN THEN <<"Invalid Date">>
  ELSE <<"date ">> \o Digits(time.n) \o <<" in locale ">>
       \o (IF loc = Undef THEN <<"default">> ELSE loc.s)

DateKeys == {N_after, N_afterOrEqual, N_before, N_beforeOrEqual}

\* String.prototype.replace(mark, text): the first occurrence only.
ReplaceFirst(s, mark, text) ==
  IF ~HasChar(s, mark) THEN s
  ELSE LET k == FirstIndex(s, mark)
       IN SubSeq(s, 1, k - 1) \o text \o SubSeq(s, k + 1, Len(s))

\* [null, undefined, ''].includes(v)
IsBlank(v) == v \in {Null, Undef, Str(<<>>)}

\* typeof args === 'object'
TypeofObject(args) == args.t \in {"object", "null"}

\* param || chunks.join(':')
ParamOrChunks(param, chunks) == IF Truthy(param) THEN param ELSE Str(Join(chunks, Colon))

GetErrorMessageOutcome(i, rule, args) ==
  IF args = Null THEN Throw   \* destructuring of null
  ELSE
    LET param0 == IF TypeofObject(args) THEN args.param ELSE args
        field == IF TypeofObject(args) THEN args.field ELSE Undef
        key == Head(Split(rule, Colon))
        chunks == Tail(Split(rule, Colon))
        param1 == ParamOrChunks(param0, chunks)
        param == IF key \in DateKeys
                 THEN Str(DateText(ParseInt(param1), locale[i]))
                 ELSE param1
    IN IF key \notin DOMAIN Messages(i) THEN Throw   \* undefined.replace
       ELSE LET message == IF IsBlank(param) THEN Messages(i)[key]
                           ELSE ReplaceFirst(Messages(i)[key], ParamMark, ToStringJS(param))
            IN Return(Str(IF IsBlank(field)
                          THEN ReplaceFirst(message, FieldMark, defaultFieldName[i])
                          ELSE ReplaceFirst(message, FieldMark, ToStringJS(field))))

\* The rule tokens and the args getErrorMessage is called with.
T_min == N_min
T_min10 == N_min \o <<":", "1", "0">>
T_after == N_after
T_after10 == N_after \o <<":", "1", "0">>
MessageTokens == {T_required, T_min, T_min10, T_after, T_after10, T_xab}
Params == {Undef, Null, Str(<<>>), Str(<<"7">>), Num(0), Num(7)}
Fields == {Undef, Str(<<>>), Str(<<"Age">>)}
MessageArgs == Params \cup {Object(param, field) : param \in Params, field \in Fields}

GetErrorMessage(i, rule, args) ==
  /\ i \in instances
  /\ lastMsg' = [kind |-> "getErrorMessage", inst |-> i, rule |-> rule, args |-> args,
                 outcome |-> GetErrorMessageOutcome(i, rule, args)]
  /\ UNCHANGED <<methods, instances, locale, messagesRef, defaultFieldName, heap,
                 lastReg, lastIs, calls, lastSchema>>

NextMessages ==
  \/ \E i \in instances, key \in MessageKeys, message \in Templates :
       SetErrorMessage(i, key, message)
  \/ \E i \in instances, loc \in Locales : SetLocale(i, loc)
  \/ \E i \in instances, fieldName \in FieldNames : SetDefaultFieldName(i, fieldName)
  \/ \E i \in instances, rule \in MessageTokens, args \in MessageArgs :
       GetErrorMessage(i, rule, args)

SpecMessages == Init /\ [][NextMessages]_vars

\* The param and the field that args supplies.
SuppliedParam(args) == IF args.t = "object" THEN args.param ELSE args
SuppliedField(args) == IF args.t = "object" THEN args.field ELSE Undef

\* The text that replaces '[FIELD]'.
FieldText(i, args) ==
  IF IsBlank(SuppliedField(args)) THEN defaultFieldName[i] ELSE ToStringJS(SuppliedField(args))

\* C7 (the claim as stated): for a token with no ':' parameter and args that
\* supplies null, undefined or '' as param, getErrorMessage returns the key's
\* template with only '[FIELD]' replaced.
C7_NoParamLeavesPlaceholder ==
  (/\ lastMsg.kind = "getErrorMessage"
   /\ AfterFirstColon(lastMsg.rule) = <<>>
   /\ IsBlank(SuppliedParam(lastMsg.args))
   /\ BeforeFirstColon(lastMsg.rule) \in DOMAIN Messages(lastMsg.inst))
  => lastMsg.outcome =
       Return(Str(ReplaceFirst(Messages(lastMsg.inst)[BeforeFirstColon(lastMsg.rule)],
                               FieldMark, FieldText(lastMsg.inst, lastMsg.args))))

\* C8 (the claim as stated): when args supplies an explicit param (not null,
\* undefined or ''), that param is the text that replaces '[PARAM]' (for a date
\* key, its rendering as a date), whatever follows the token's first ':'.
C8_ExplicitParamWins ==
  (/\ lastMsg.kind = "getErrorMessage"
   /\ ~IsBlank(SuppliedParam(lastMsg.args))
   /\ BeforeFirstColon(lastMsg.rule) \in DOMAIN Messages(lastMsg.inst))
  => LET key == BeforeFirstColon(lastMsg.rule)
         given == SuppliedParam(lastMsg.args)
         text == IF key \in DateKeys
                 THEN DateText(ParseInt(given), locale[lastMsg.inst])
                 ELSE ToStringJS(given)
     IN lastMsg.outcome =
          Return(Str(ReplaceFirst(ReplaceFirst(Messages(lastMsg.inst)[key], ParamMark, text),
                                  FieldMark, FieldText(lastMsg.inst, lastMsg.args))))

(***************************************************************************)
(* isValidSchema(values, schema).  A schema is the sequence of its         *)
(* [key, rules] entries in the order of Object.keys(schema); values is a   *)
(* function from its own keys to their values.                             *)
(***************************************************************************)
\* Faulty variant of HasOwnProperty, for sensitivity of the properties: the check left out.
HasOwnPropertyAlways(values, key) == TRUE

\* values.hasOwnProperty(key)
HasOwnProperty(values, key) == key \in DOMAIN values

\* values[key]
ValueAt(values, key) == IF key \in DOMAIN values THEN values[key] ELSE Undef

\* The for loop of isValidSchema from entry n on.
RECURSIVE SchemaLoop(_, _, _, _)
SchemaLoop(i, values, schema, n) ==
  IF n > Len(schema) THEN Return(Bool(TRUE))
  ELSE LET key == schema[n].key
       IN IF ~HasOwnProperty(values, key) THEN Return(Bool(FALSE))
          ELSE LET valid == IsValidOutcome(i, ValueAt(values, key), schema[n].rules)
               IN IF valid.kind = "throw" THEN Throw
                  ELSE IF valid.value = Bool(FALSE) THEN Return(Bool(FALSE))
                  ELSE SchemaLoop(i, values, schema, n + 1)

IsValidSchemaOutcome(i, values, schema) ==
  IF Len(schema) = 0 THEN Return(Bool(TRUE)) ELSE SchemaLoop(i, values, schema, 1)

\* The keys, the rule lists and the values of the schemas and value objects.
Keys == {"a", "b", "c"}
SchemaRuleLists == {<<T_required>>, <<T_x>>}
SchemaValues == {Str(S_a)}

Entries == [key : Keys, rules : SchemaRuleLists]
Schemas ==
  {sch \in SeqsUpTo(Entries, MaxKeys) :
     \A m, n \in 1..Len(sch) : m # n => sch[m].key # sch[n].key}
ValueObjects == UNION {[ks -> SchemaValues] : ks \in SUBSET Keys}

IsValidSchema(i, values, schema) ==
  /\ i \in instances
  /\ lastSchema' = [kind |-> "isValidSchema", inst |-> i, values |-> values,
                    schema |-> schema,
                    outcome |-> IsValidSchemaOutcome(i, values, schema)]
  /\ UNCHANGED <<methods, instances, locale, messagesRef, defaultFieldName, heap,
                 lastReg, lastIs, calls, lastMsg>>

NextSchema ==
  \/ \E i \in instances, name \in AsyncRuleNames, id \in Closures : AddRule(i, name, id)
  \/ \E i \in instances, values \in ValueObjects, schema \in Schemas :
       IsValidSchema(i, values, schema)

SpecSchema == Init /\ [][NextSchema]_vars

\* Some key of the schema is not an own key of values.
SomeKeyMissing(c) == \E n \in 1..Len(c.schema) : c.schema[n].key \notin DOMAIN c.values

\* The place of the first key of the schema that values lacks.
FirstMissing(c) ==
  CHOOSE n \in 1..Len(c.schema) :
    /\ c.schema[n].key \notin DOMAIN c.values
    /\ \A m \in 1..(n - 1) : c.schema[m].key \in DOMAIN c.values

\* Entry n of the schema has a rule with no catalog entry.
HasUnregisteredRule(c, n) ==
  \E k \in 1..Len(c.schema[n].rules) : ~HasEntry(c.inst, c.schema[n].rules[k])

=============================================================================
